---- MODULE Spec2Model ----
(***************************************************************************)
(* Document mutation and extraction engine of gdrive-mcp                   *)
(* (services/document.service.ts on top of services/drive-api.client.ts).  *)
(*                                                                         *)
(* A text is a sequence of one-character strings.  The remote document is  *)
(* a record [body, text]: text is the body's characters without the        *)
(* trailing terminator; body = FALSE is a document whose read carries no   *)
(* content tree.  Every engine call is an asynchronous unit of work with   *)
(* suspension points at its awaited read (getDocument) and its awaited     *)
(* submit (batchUpdateDocument).                                           *)
(***************************************************************************)
EXTENDS Integers, Sequences, FiniteSets, TLC

VARIABLES doc, calls, walk, drive

vars == <<doc, calls, walk, drive>>

(*************************** bounds of the model ***************************)
MaxTextLen == 1
MaxItems == 2
MaxDocLen == 4
MaxConcCalls == 1
MaxRuns == 2
MaxBlocks == 2
MaxRows == 2
MaxCells == 2

Clients == {1, 2}
KnownId == "d1"
UnknownId == "nx"
DocIds == {KnownId, UnknownId}

NL == "\n"
InChar == {"a", " "}
ItemChar == {"a"}
SearchChar == {"a", "A"}

SeqsUpTo(S, n) == UNION {[1..k -> S] : k \in 0..n}
Texts == SeqsUpTo(InChar, MaxTextLen)
ItemTexts == SeqsUpTo(ItemChar, MaxTextLen)
ItemLists == SeqsUpTo(ItemTexts, MaxItems)
SearchTexts == SeqsUpTo(SearchChar, MaxTextLen)
ReplaceTexts == SeqsUpTo(ItemChar, MaxTextLen)
Levels == {"HEADING_1", "HEADING_2", "HEADING_3", "HEADING_4", "HEADING_5", "HEADING_6"}
Indices == 0..(MaxDocLen + 2)

Max(a, b) == IF a >= b THEN a ELSE b

(************************ strings (JavaScript) *****************************)
IsSpace(ch) == ch \in {" ", NL}

RECURSIVE TrimStart(_)
TrimStart(s) ==
  IF s # <<>> /\ IsSpace(Head(s)) THEN TrimStart(Tail(s)) ELSE s

RECURSIVE TrimEnd(_)
TrimEnd(s) ==
  IF s # <<>> /\ IsSpace(s[Len(s)]) THEN TrimEnd(SubSeq(s, 1, Len(s) - 1)) ELSE s

\* String.prototype.trim
Trim(s) == TrimEnd(TrimStart(s))

\* Array.prototype.join
RECURSIVE Join(_, _)
Join(items, sep) ==
  IF items = <<>> THEN <<>>
  ELSE IF Len(items) = 1 THEN items[1]
  ELSE items[1] \o sep \o Join(Tail(items), sep)

(********************* the backend's content tree **************************)
\* A paragraph element holding a textRun with content, and one whose textRun or
\* whose content is absent.
Run(text) == [has |-> TRUE, content |-> text]
NoRun == [has |-> FALSE, content |-> <<>>]

\* The first paragraph of s (up to and including its newline); s ends with one.
RECURSIVE FirstPara(_)
FirstPara(s) ==
  IF s = <<>> THEN <<>>
  ELSE IF Head(s) = NL THEN <<NL>>
  ELSE <<Head(s)>> \o FirstPara(Tail(s))

RECURSIVE Paragraphs(_, _)
Paragraphs(s, start) ==
  IF s = <<>> THEN <<>>
  ELSE LET p == FirstPara(s)
       IN <<[kind |-> "paragraph", has |-> TRUE, endIndex |-> start + Len(p),
             runs |-> <<Run(p)>>]>>
          \o Paragraphs(SubSeq(s, Len(p) + 1, Len(s)), start + Len(p))

\* body.content of the document resource: a section break ending at index 1, then
\* the paragraphs of the text and its trailing terminator, from index 1 on.
Tree(d) ==
  IF ~d.body THEN <<>>
  ELSE <<[kind |-> "sectionBreak", has |-> FALSE, endIndex |-> 1, runs |-> <<>>]>>
       \o Paragraphs(d.text \o <<NL>>, 1)

\* One past the last character of the body (the terminator included).
DocEnd(d) == IF d.body THEN Len(d.text) + 2 ELSE 1

(************************ the backend's batchUpdate ************************)
Lower(ch) == IF ch = "A" THEN "a" ELSE ch

SameChars(s, t, matchCase) ==
  /\ Len(s) = Len(t)
  /\ \A k \in 1..Len(s) : IF matchCase THEN s[k] = t[k] ELSE Lower(s[k]) = Lower(t[k])

MatchesAt(s, search, matchCase) ==
  Len(s) >= Len(search) /\ SameChars(SubSeq(s, 1, Len(search)), search, matchCase)

\* replaceAllText on the body's text: the occurrences from left to right, none
\* overlapping (an empty search is refused, and matches nothing).
RECURSIVE ReplaceAll(_, _, _, _)
ReplaceAll(s, search, repl, matchCase) ==
  IF s = <<>> \/ search = <<>> THEN s
  ELSE IF MatchesAt(s, search, matchCase)
       THEN repl \o ReplaceAll(SubSeq(s, Len(search) + 1, Len(s)), search, repl, matchCase)
       ELSE <<Head(s)>> \o ReplaceAll(Tail(s), search, repl, matchCase)

RECURSIVE Occurrences(_, _, _)
Occurrences(s, search, matchCase) ==
  IF s = <<>> \/ search = <<>> THEN 0
  ELSE IF MatchesAt(s, search, matchCase)
       THEN 1 + Occurrences(SubSeq(s, Len(search) + 1, Len(s)), search, matchCase)
       ELSE Occurrences(Tail(s), search, matchCase)

NoReply == [has |-> FALSE, occurrencesChanged |-> 0]

\* replies[0].replaceAllText of the answer: occurrencesChanged is present when
\* something was replaced.
Reply(d, reqs) ==
  IF reqs # <<>> /\ reqs[1].type = "replaceAllText"
  THEN LET n == Occurrences(d.text, reqs[1].search, reqs[1].matchCase)
       IN IF n = 0 THEN NoReply ELSE [has |-> TRUE, occurrencesChanged |-> n]
  ELSE NoReply

RequestLegal(d, r) ==
  CASE r.type = "insertText" ->
         r.startIndex >= 1 /\ r.startIndex <= Max(1, DocEnd(d) - 1)
    [] r.type = "deleteContentRange" ->
         d.body /\ r.startIndex >= 1 /\ r.startIndex < r.endIndex
                /\ r.endIndex <= DocEnd(d) - 1
    [] r.type \in {"updateParagraphStyle", "createParagraphBullets"} ->
         d.body /\ r.startIndex >= 1 /\ r.startIndex < r.endIndex
                /\ r.endIndex <= DocEnd(d)
    [] r.type = "replaceAllText" -> r.search # <<>>
    [] OTHER -> FALSE

ApplyRequest(d, r) ==
  CASE r.type = "insertText" ->
         [body |-> TRUE,
          text |-> SubSeq(d.text, 1, r.startIndex - 1) \o r.text
                   \o SubSeq(d.text, r.startIndex, Len(d.text))]
    [] r.type = "deleteContentRange" ->
         [d EXCEPT !.text = SubSeq(d.text, 1, r.startIndex - 1)
                            \o SubSeq(d.text, r.endIndex, Len(d.text))]
    [] r.type = "replaceAllText" ->
         [d EXCEPT !.text = ReplaceAll(d.text, r.search, r.text, r.matchCase)]
    [] OTHER -> d

\* The requests of a batch apply in array order, each against the result of the
\* ones before it; the batch is all-or-nothing.
RECURSIVE BatchLegal(_, _)
BatchLegal(d, reqs) ==
  IF reqs = <<>> THEN TRUE
  ELSE RequestLegal(d, Head(reqs)) /\ BatchLegal(ApplyRequest(d, Head(reqs)), Tail(reqs))

RECURSIVE ApplyBatch(_, _)
ApplyBatch(d, reqs) ==
  IF reqs = <<>> THEN d ELSE ApplyBatch(ApplyRequest(d, Head(reqs)), Tail(reqs))

(********************* DocumentService: pure parts *************************)
\* Mutant of EndOfDocumentIndex: the end index of a new document, kept from an
\* earlier read, whatever the tree.
EndOfDocumentIndexCached(tree) == 2

\* doc.body?.content?.slice(-1)[0]?.endIndex || 1
EndOfDocumentIndex(tree) ==
  IF tree = <<>> THEN 1
  ELSE IF tree[Len(tree)].endIndex = 0 THEN 1 ELSE tree[Len(tree)].endIndex

\* if (textRun.textRun?.content): what the run adds, nothing when a field is absent
\* or the content is the empty string.
RunText(run) == IF run.has THEN run.content ELSE <<>>

\* Mutant of ConcatRuns: a blank is added after every run.
RECURSIVE ConcatRunsSpaced(_)
ConcatRunsSpaced(runs) ==
  IF runs = <<>> THEN <<>>
  ELSE RunText(Head(runs)) \o <<" ">> \o ConcatRunsSpaced(Tail(runs))

\* for (const textRun of element.paragraph.elements) content += textRun.textRun.content
RECURSIVE ConcatRuns(_)
ConcatRuns(runs) ==
  IF runs = <<>> THEN <<>> ELSE RunText(Head(runs)) \o ConcatRuns(Tail(runs))

\* cellText += textRun.textRun.content.trim(), over the runs of one paragraph of a cell
RECURSIVE ConcatTrimmedRuns(_)
ConcatTrimmedRuns(runs) ==
  IF runs = <<>> THEN <<>>
  ELSE Trim(RunText(Head(runs))) \o ConcatTrimmedRuns(Tail(runs))

\* for (const cellContent of cell.content || []): the paragraphs of the cell; any
\* other block of the cell adds nothing.
RECURSIVE CellText(_)
CellText(cell) ==
  IF cell = <<>> THEN <<>>
  ELSE (IF Head(cell).kind = "paragraph" /\ Head(cell).has
        THEN ConcatTrimmedRuns(Head(cell).runs) ELSE <<>>)
       \o CellText(Tail(cell))

\* cells.push(cellText) over row.tableCells || []
RECURSIVE CellTexts(_)
CellTexts(cells) ==
  IF cells = <<>> THEN <<>> ELSE <<CellText(Head(cells))>> \o CellTexts(Tail(cells))

TableOpen == <<"[", "T", "A", "B", "L", "E", "]", NL>>
TableClose == <<"[", "/", "T", "A", "B", "L", "E", "]", NL>>

\* Mutant of CellSep: the cells of a row are joined by a comma.
CellSepComma == <<",", " ">>

CellSep == <<" ", "|", " ">>

\* content += cells.join(' | ') + '\n', over element.table.tableRows || []
RECURSIVE RowsText(_)
RowsText(rows) ==
  IF rows = <<>> THEN <<>>
  ELSE Join(CellTexts(Head(rows)), CellSep) \o <<NL>> \o RowsText(Tail(rows))

TableText(rows) == TableOpen \o RowsText(rows) \o TableClose

\* for (const element of doc.body.content): the runs of a paragraph that has
\* elements, the flattened rows of a table, nothing for any other block.
RECURSIVE WalkBlocks(_)
WalkBlocks(tree) ==
  IF tree = <<>> THEN <<>>
  ELSE (IF Head(tree).kind = "paragraph" /\ Head(tree).has
        THEN ConcatRuns(Head(tree).runs) ELSE <<>>)
       \o (IF Head(tree).kind = "table" THEN TableText(Head(tree).rows) ELSE <<>>)
       \o WalkBlocks(Tail(tree))

\* readDocument's content: content.trim() after the walk.
ExtractText(tree) == Trim(WalkBlocks(tree))

\* let content = ''; if (doc.body?.content) { ... }; content.trim()
ContentOf(absent, tree) == IF absent THEN Trim(<<>>) ELSE ExtractText(tree)

\* Mutant of IsEmptyText: the empty-text guard is missing.
IsEmptyTextNever(text) == FALSE

\* if (!text) return;
IsEmptyText(text) == text = <<>>

\* if (items.length === 0) return;
IsEmptyList(items) == Len(items) = 0

InsertTextRequest(index, text) ==
  [type |-> "insertText", startIndex |-> index, endIndex |-> 0, text |-> text, style |-> ""]

\* Mutant of AppendTextRequests: inserts at the start of the body.
AppendTextRequestsAtStart(text, endIndex) == <<InsertTextRequest(1, text)>>

AppendTextRequests(text, endIndex) == <<InsertTextRequest(endIndex - 1, text)>>

\* Mutant of InsertTextRequests: the caller's index is floored at 1.
InsertTextRequestsFloored(text, index) == <<InsertTextRequest(Max(1, index), text)>>

InsertTextRequests(text, index) == <<InsertTextRequest(index, text)>>

DeleteContentRequests(startIndex, endIndex) ==
  <<[type |-> "deleteContentRange", startIndex |-> startIndex, endIndex |-> endIndex,
     text |-> <<>>, style |-> ""]>>

\* Mutant of ClearNeeded: the guard on the end index is missing.
ClearNeededAlways(endIndex) == TRUE

\* if (endIndex > 1)
ClearNeeded(endIndex) == endIndex > 1

\* Mutant of ClearRequests: the range stops one character early.
ClearRequestsShort(endIndex) == DeleteContentRequests(1, endIndex - 2)

ClearRequests(endIndex) == DeleteContentRequests(1, endIndex - 1)

\* Mutant of AddHeadingRequests: the style range leaves out the trailing newline.
AddHeadingRequestsNoNewline(text, headingLevel, endIndex) ==
  LET insertIndex == endIndex - 1
  IN <<InsertTextRequest(insertIndex, text \o <<NL>>),
       [type |-> "updateParagraphStyle", startIndex |-> insertIndex,
        endIndex |-> insertIndex + Len(text), text |-> <<>>,
        style |-> headingLevel]>>

AddHeadingRequests(text, headingLevel, endIndex) ==
  LET insertIndex == endIndex - 1
      textWithNewline == text \o <<NL>>
  IN <<InsertTextRequest(insertIndex, textWithNewline),
       [type |-> "updateParagraphStyle", startIndex |-> insertIndex,
        endIndex |-> insertIndex + Len(textWithNewline), text |-> <<>>,
        style |-> headingLevel]>>

BulletText(items) == Join(items, <<NL>>) \o <<NL>>

\* Mutant of AddBulletListRequests: the inserted text lacks its trailing newline.
AddBulletListRequestsNoTrail(items, endIndex) ==
  LET insertIndex == endIndex - 1
      text == Join(items, <<NL>>)
  IN <<InsertTextRequest(insertIndex, text),
       [type |-> "createParagraphBullets", startIndex |-> insertIndex,
        endIndex |-> insertIndex + Len(text), text |-> <<>>,
        style |-> "BULLET_DISC_CIRCLE_SQUARE"]>>

AddBulletListRequests(items, endIndex) ==
  LET insertIndex == endIndex - 1
      text == BulletText(items)
  IN <<InsertTextRequest(insertIndex, text),
       [type |-> "createParagraphBullets", startIndex |-> insertIndex,
        endIndex |-> insertIndex + Len(text), text |-> <<>>,
        style |-> "BULLET_DISC_CIRCLE_SQUARE"]>>

\* Mutant of ReplaceTextRequests: the match ignores case.
ReplaceTextRequestsAnyCase(searchText, replaceText) ==
  <<[type |-> "replaceAllText", startIndex |-> 0, endIndex |-> 0, text |-> replaceText,
     style |-> "", search |-> searchText, matchCase |-> FALSE]>>

ReplaceTextRequests(searchText, replaceText) ==
  <<[type |-> "replaceAllText", startIndex |-> 0, endIndex |-> 0, text |-> replaceText,
     style |-> "", search |-> searchText, matchCase |-> TRUE]>>

\* response.replies?.[0]?.replaceAllText?.occurrencesChanged || 0
OccurrencesChanged(reply) == IF reply.has THEN reply.occurrencesChanged ELSE 0

\* if (content) in updateDocument
UpdateAppends(content) == content # <<>>

(*************************** the calls *************************************)
\* The operations whose successful completion the next call of the same caller
\* remembers (prev).
TrackedOps == {"clearDocument"}

\* The record of a run of appendText calls, kept when on: the document's text
\* before the run and the texts appended since, in call order.
NoHist == [on |-> FALSE, base |-> <<>>, texts |-> <<>>]

\* The run goes on through calls that read, and through appendText calls that
\* returned without error.
RunIntact(r) ==
  \/ r.op \in {"none", "readDocument"}
  \/ r.op = "appendText" /\ r.result = "ok"

Idle == [pc |-> "idle", op |-> "none", docId |-> "", text |-> <<>>, items |-> <<>>,
         index |-> 0, level |-> "", phase |-> "main", result |-> "none",
         ret |-> <<>>, log |-> <<>>, snap |-> [body |-> FALSE, text |-> <<>>],
         prev |-> "none", left |-> -1, search |-> <<>>, count |-> 0, hist |-> NoHist,
         title |-> "", given |-> FALSE, parent |-> ""]

\* left: the calls the caller may still start (-1: no limit).
CanStart(c) == calls[c].pc \in {"idle", "done"} /\ calls[c].left # 0

\* A fresh call record. snap is the document as the call starts; prev is the
\* caller's preceding call when that was a tracked operation on the same document
\* that returned without error.
Fresh(c, op, d) ==
  [Idle EXCEPT !.op = op, !.docId = d, !.snap = doc,
               !.hist = IF ~calls[c].hist.on \/ RunIntact(calls[c]) THEN calls[c].hist
                        ELSE [on |-> TRUE, base |-> doc.text, texts |-> <<>>],
               !.left = IF calls[c].left > 0 THEN calls[c].left - 1 ELSE calls[c].left,
               !.prev = IF /\ calls[c].op \in TrackedOps
                           /\ calls[c].docId = d
                           /\ calls[c].result = "ok"
                        THEN calls[c].op ELSE "none"]

Event(kind, phase, reqs) ==
  [kind |-> kind, phase |-> phase, outcome |-> "pending", endIndex |-> 0,
   requests |-> reqs, reply |-> NoReply]

\* The call suspends on driveClient.getDocument.
AwaitRead(r, phase) ==
  [r EXCEPT !.pc = "read", !.phase = phase,
            !.log = Append(r.log, Event("read", phase, <<>>))]

\* The call suspends on driveClient.batchUpdateDocument(requests).
AwaitSubmit(r, phase, reqs) ==
  [r EXCEPT !.pc = "submit", !.phase = phase,
            !.log = Append(r.log, Event("submit", phase, reqs))]

Settle(r, outcome, endIndex) ==
  [r EXCEPT !.log[Len(r.log)].outcome = outcome,
            !.log[Len(r.log)].endIndex = endIndex]

\* The answer of the batchUpdate the call awaits.
WithReply(r, reply) == [r EXCEPT !.log[Len(r.log)].reply = reply]

Return(r) == [r EXCEPT !.pc = "done", !.result = "ok"]

Throw(r, code) == [r EXCEPT !.pc = "done", !.result = code]

\* The model's cap on the document's length: a call that would insert n characters
\* starts only while the text and the n characters stay within MaxDocLen.
Fits(n) == Len(doc.text) + n <= MaxDocLen

(*************************** operations ************************************)
\* readDocument(documentId): up to its awaited getDocument.
ReadDocument(c, d) ==
  /\ CanStart(c)
  /\ calls' = [calls EXCEPT ![c] = AwaitRead(Fresh(c, "readDocument", d), "main")]
  /\ UNCHANGED <<doc, walk, drive>>

\* appendText(documentId, text): the empty-text return, or up to getDocument.
AppendText(c, d, text) ==
  /\ CanStart(c)
  /\ Fits(Len(text))
  /\ LET r == [Fresh(c, "appendText", d) EXCEPT
                  !.text = text,
                  !.hist.texts = IF calls[c].hist.on /\ ~IsEmptyText(text)
                                 THEN Append(@, text) ELSE @]
     IN calls' = [calls EXCEPT ![c] =
                    IF IsEmptyText(text) THEN Return(r) ELSE AwaitRead(r, "main")]
  /\ UNCHANGED <<doc, walk, drive>>

\* insertText(documentId, text, index): the empty-text return, or up to batchUpdate.
InsertText(c, d, text, index) ==
  /\ CanStart(c)
  /\ Fits(Len(text))
  /\ LET r == [Fresh(c, "insertText", d) EXCEPT !.text = text, !.index = index]
     IN calls' = [calls EXCEPT ![c] =
                    IF IsEmptyText(text) THEN Return(r)
                    ELSE AwaitSubmit(r, "main", InsertTextRequests(text, index))]
  /\ UNCHANGED <<doc, walk, drive>>

\* clearDocument(documentId): up to its awaited getDocument.
ClearDocument(c, d) ==
  /\ CanStart(c)
  /\ calls' = [calls EXCEPT ![c] = AwaitRead(Fresh(c, "clearDocument", d), "main")]
  /\ UNCHANGED <<doc, walk, drive>>

\* updateDocument(documentId, content): enters clearDocument, up to its getDocument.
UpdateDocument(c, d, content) ==
  /\ CanStart(c)
  /\ LET r == [Fresh(c, "updateDocument", d) EXCEPT !.text = content]
     IN calls' = [calls EXCEPT ![c] = AwaitRead(r, "clear")]
  /\ UNCHANGED <<doc, walk, drive>>

\* addHeading(documentId, text, headingLevel): up to its awaited getDocument.
AddHeading(c, d, text, headingLevel) ==
  /\ CanStart(c)
  /\ Fits(Len(text) + 1)
  /\ LET r == [Fresh(c, "addHeading", d) EXCEPT !.text = text, !.level = headingLevel]
     IN calls' = [calls EXCEPT ![c] = AwaitRead(r, "main")]
  /\ UNCHANGED <<doc, walk, drive>>

\* addBulletList(documentId, items): the empty-list return, or up to getDocument.
AddBulletList(c, d, items) ==
  /\ CanStart(c)
  /\ Fits(Len(BulletText(items)))
  /\ LET r == [Fresh(c, "addBulletList", d) EXCEPT !.items = items]
     IN calls' = [calls EXCEPT ![c] =
                    IF IsEmptyList(items) THEN Return(r) ELSE AwaitRead(r, "main")]
  /\ UNCHANGED <<doc, walk, drive>>

\* replaceText(documentId, searchText, replaceText): up to its awaited batchUpdate.
ReplaceText(c, d, searchText, replaceText) ==
  /\ CanStart(c)
  /\ Len(ReplaceAll(doc.text, searchText, replaceText, TRUE)) <= MaxDocLen
  /\ LET r == [Fresh(c, "replaceText", d) EXCEPT !.search = searchText,
                                                  !.text = replaceText]
     IN calls' = [calls EXCEPT ![c] =
                    AwaitSubmit(r, "main", ReplaceTextRequests(searchText, replaceText))]
  /\ UNCHANGED <<doc, walk, drive>>

DOCS_MIME_TYPE == "application/vnd.google-apps.document"
Titles == {"", "t"}
ParentIds == {"", "p1"}

\* metadata of createDocument: name, mimeType, and parents when parentId is given.
DocumentMetadata(title, parentId) ==
  [type |-> "createFile", name |-> title, mimeType |-> DOCS_MIME_TYPE,
   parents |-> IF parentId # "" THEN <<parentId>> ELSE <<>>]

\* The call suspends on driveClient.createFile(metadata).
AwaitCreate(r, metadata) ==
  [r EXCEPT !.pc = "create", !.log = Append(r.log, Event("create", "main", <<metadata>>))]

\* createDocument(title, content?, parentId?): the validation error, or up to its
\* awaited createFile. given tells whether content was passed.
CreateDocument(c, title, given, content, parentId) ==
  /\ CanStart(c)
  /\ ~given => content = <<>>
  /\ LET r == [Fresh(c, "createDocument", "") EXCEPT
                  !.title = title, !.given = given, !.text = content, !.parent = parentId]
     IN calls' = [calls EXCEPT ![c] =
                    IF title = "" THEN Throw(r, "VALIDATION_ERROR")
                    ELSE AwaitCreate(r, DocumentMetadata(title, parentId))]
  /\ UNCHANGED <<doc, walk, drive>>

\* Mutant of AfterCreate: the content is appended whether or not it is empty.
AfterCreateAlwaysAppends(r, id) ==
  AwaitRead([Settle(r, "ok", 0) EXCEPT !.docId = id], "append")

\* createDocument from the answer of createFile on: if (content && doc.id) it
\* enters appendText(doc.id, content), which returns at once on an empty text and
\* else goes up to its getDocument.
AfterCreate(r, id) ==
  LET s == [Settle(r, "ok", 0) EXCEPT !.docId = id]
  IN IF r.given /\ r.text # <<>> /\ id # ""
     THEN IF IsEmptyText(r.text) THEN Return(s) ELSE AwaitRead(s, "append")
     ELSE Return(s)

\* files.create answers: a new document exists behind the id it returns, empty as
\* the documents of InitDocs.
CreateFileReturns(c) ==
  /\ calls[c].pc = "create"
  /\ doc' \in {[body |-> TRUE, text |-> <<>>], [body |-> FALSE, text |-> <<>>]}
  /\ calls' = [calls EXCEPT ![c] = AfterCreate(@, KnownId)]
  /\ UNCHANGED <<walk, drive>>

\* files.create throws: catch (error) { throw createAPIError(...) }; nothing was
\* created.
CreateFileFails(c) ==
  /\ calls[c].pc = "create"
  /\ calls' = [calls EXCEPT ![c] = Throw(Settle(@, "fault", 0), "API_ERROR")]
  /\ UNCHANGED <<doc, walk, drive>>

\* updateDocument after its clearDocument has returned.
AfterClear(r) ==
  IF r.op = "updateDocument"
  THEN IF UpdateAppends(r.text) /\ ~IsEmptyText(r.text)
       THEN AwaitRead(r, "append")
       ELSE Return(r)
  ELSE Return(r)

\* The code that runs from a successful getDocument to the call's next await or
\* return.
AfterRead(r, tree) ==
  LET endIndex == EndOfDocumentIndex(tree)
      s == Settle(r, "ok", endIndex)
  IN CASE r.op = "readDocument" -> [Return(s) EXCEPT !.ret = ExtractText(tree)]
       [] \/ r.op = "appendText"
          \/ (r.op \in {"updateDocument", "createDocument"} /\ r.phase = "append") ->
            AwaitSubmit(s, r.phase, AppendTextRequests(r.text, endIndex))
       [] r.op = "clearDocument" \/ (r.op = "updateDocument" /\ r.phase = "clear") ->
            IF ClearNeeded(endIndex)
            THEN AwaitSubmit(s, r.phase, ClearRequests(endIndex))
            ELSE AfterClear(s)
       [] r.op = "addHeading" ->
            AwaitSubmit(s, r.phase, AddHeadingRequests(r.text, r.level, endIndex))
       [] r.op = "addBulletList" ->
            AwaitSubmit(s, r.phase, AddBulletListRequests(r.items, endIndex))

\* The code that runs from a successful batchUpdateDocument on.
AfterSubmit(r) ==
  LET s == Settle(r, "ok", 0)
  IN IF r.op = "updateDocument" /\ r.phase = "clear" THEN AfterClear(s)
     ELSE IF r.op = "replaceText"
          THEN [Return(s) EXCEPT !.count = OccurrencesChanged(r.log[Len(r.log)].reply)]
          ELSE Return(s)

\* documents.get answers: DocumentService.getDocument throws NOT_FOUND for an
\* answer without documentId, else the call goes on.
GetDocumentReturns(c) ==
  /\ calls[c].pc = "read"
  /\ calls[c].docId = KnownId
  /\ LET documentId == calls[c].docId
     IN calls' = [calls EXCEPT ![c] =
                    IF documentId = "" THEN Throw(Settle(@, "refused", 0), "NOT_FOUND")
                    ELSE AfterRead(@, Tree(doc))]
  /\ UNCHANGED <<doc, walk, drive>>

\* Mutant of OnReadError: updateDocument goes on to its append when the read of its
\* clear step has failed.
OnReadErrorIgnoredByUpdate(r, cause) ==
  IF r.op = "updateDocument" /\ r.phase = "clear"
  THEN AfterClear(Settle(r, cause, 0))
  ELSE Throw(Settle(r, cause, 0), "API_ERROR")

\* catch (error) { throw createAPIError(...) } around documents.get: the error
\* ends the call, every caller up the stack awaiting without a catch.
OnReadError(r, cause) == Throw(Settle(r, cause, 0), "API_ERROR")

\* Mutant of OnSubmitError: a failed batchUpdate is submitted once more.
OnSubmitErrorRetried(r, cause) ==
  IF Len(r.log) < 4
  THEN AwaitSubmit(Settle(r, cause, 0), r.phase, r.log[Len(r.log)].requests)
  ELSE Throw(Settle(r, cause, 0), "API_ERROR")

\* Mutant of OnSubmitError: the error is caught and not rethrown.
OnSubmitErrorSwallowed(r, cause) == Return(Settle(r, cause, 0))

\* catch (error) { throw createAPIError(...) } around documents.batchUpdate.
OnSubmitError(r, cause) == Throw(Settle(r, cause, 0), "API_ERROR")

Causes == {"fault", "refused"}

\* documents.get throws: the backend refuses an unknown id, or the transport
\* fails.
GetDocumentFails(c) ==
  /\ calls[c].pc = "read"
  /\ \E cause \in Causes :
       /\ cause = "refused" => calls[c].docId # KnownId
       /\ calls' = [calls EXCEPT ![c] = OnReadError(@, cause)]
  /\ UNCHANGED <<doc, walk, drive>>

\* documents.batchUpdate applies the whole batch and answers.
BatchUpdateReturns(c) ==
  /\ calls[c].pc = "submit"
  /\ calls[c].docId = KnownId
  /\ LET reqs == calls[c].log[Len(calls[c].log)].requests
     IN /\ BatchLegal(doc, reqs)
        /\ doc' = ApplyBatch(doc, reqs)
        /\ calls' = [calls EXCEPT ![c] = AfterSubmit(WithReply(@, Reply(doc, reqs)))]
  /\ UNCHANGED <<walk, drive>>

\* documents.batchUpdate throws and applies nothing: the backend refuses an
\* unknown id or a batch holding an illegal request, or the transport fails.
BatchUpdateFails(c) ==
  /\ calls[c].pc = "submit"
  /\ \E cause \in Causes :
       /\ cause = "refused" =>
            \/ calls[c].docId # KnownId
            \/ ~BatchLegal(doc, calls[c].log[Len(calls[c].log)].requests)
       /\ calls' = [calls EXCEPT ![c] = OnSubmitError(@, cause)]
  /\ UNCHANGED <<doc, walk, drive>>

Next ==
  \E c \in Clients :
    \/ \E d \in DocIds : ReadDocument(c, d)
    \/ \E d \in DocIds, text \in Texts : AppendText(c, d, text)
    \/ \E d \in DocIds, text \in Texts, index \in Indices : InsertText(c, d, text, index)
    \/ \E d \in DocIds : ClearDocument(c, d)
    \/ \E d \in DocIds, content \in Texts : UpdateDocument(c, d, content)
    \/ \E d \in DocIds, text \in Texts, level \in Levels : AddHeading(c, d, text, level)
    \/ \E d \in DocIds, items \in ItemLists : AddBulletList(c, d, items)
    \/ \E d \in DocIds, searchText \in SearchTexts, replaceText \in ReplaceTexts :
         ReplaceText(c, d, searchText, replaceText)
    \/ GetDocumentReturns(c)
    \/ GetDocumentFails(c)
    \/ BatchUpdateReturns(c)
    \/ BatchUpdateFails(c)

(******************* readDocument on a given content tree ******************)
Para(runs) == [kind |-> "paragraph", has |-> TRUE, endIndex |-> 0, runs |-> runs]
\* A paragraph whose elements are absent, and a block that is neither a paragraph
\* nor a table.
NoElements == [kind |-> "paragraph", has |-> FALSE, endIndex |-> 0, runs |-> <<>>]
SectionBreak == [kind |-> "sectionBreak", has |-> FALSE, endIndex |-> 0, runs |-> <<>>]
Table(rows) ==
  [kind |-> "table", has |-> FALSE, endIndex |-> 0, runs |-> <<>>, rows |-> rows]

WalkRuns == {Run(<<"a">>), Run(<<" ">>), NoRun}
ParaBlocks == {Para(r) : r \in SeqsUpTo(WalkRuns, MaxRuns)} \cup {NoElements, SectionBreak}
ParaTrees == SeqsUpTo(ParaBlocks, MaxBlocks)

\* A cell holding one paragraph of one run.
PlainCell(ch) == <<Para(<<Run(<<ch>>)>>)>>
GridCells == {PlainCell(ch) : ch \in {"a", "b", "c", "d"}}
GridRows == SeqsUpTo(GridCells, MaxCells)
GridTables == {<<Table(rows)>> : rows \in SeqsUpTo(GridRows, MaxRows)}

\* Cells of other shapes: empty, runs with blanks at their ends, two paragraphs,
\* a paragraph without elements, a table inside the cell.
OddCells ==
  { <<>>,
    <<Para(<<Run(<<"a", " ">>), Run(<<"b">>)>>)>>,
    <<Para(<<Run(<<" ", "a">>)>>)>>,
    <<Para(<<Run(<<"a", NL>>)>>), Para(<<Run(<<"b", NL>>)>>)>>,
    <<NoElements>>,
    <<Table(<< <<PlainCell("a")>> >>)>>,
    PlainCell("a") }
OddTables == {<<Table(<<row>>)>> : row \in SeqsUpTo(OddCells, MaxCells)}

\* A table between two paragraphs.
MixedTrees ==
  {<<p>> \o <<Table(<<row>>)>> \o <<q>> :
     p \in {Para(<<Run(<<"a", NL>>)>>)},
     row \in GridRows,
     q \in {Para(<<Run(<<"b", NL>>)>>), Para(<<Run(<<NL>>)>>)}}

WalkTrees == ParaTrees \cup GridTables \cup OddTables \cup MixedTrees

NoWalk == [absent |-> TRUE, tree |-> <<>>, content |-> <<>>, done |-> FALSE]

\* readDocument from the answer of its getDocument on: the walk over
\* doc.body.content and the trim.
ExtractContent ==
  /\ ~walk.done
  /\ walk' = [walk EXCEPT !.content = ContentOf(walk.absent, walk.tree), !.done = TRUE]
  /\ UNCHANGED <<doc, calls, drive>>

(*************************** create_file ***********************************)
\* Strings of this part are sequences of characters, so that the extension and
\* the look of a MIME type are computed as the code computes them.
Includes(s, ch) == \E k \in 1..Len(s) : s[k] = ch

\* An optional argument: left out, or passed with value v.
Absent == [has |-> FALSE, v |-> <<>>]
Passed(v) == [has |-> TRUE, v |-> v]
\* JavaScript truthiness of an optional string.
Truthy(a) == a.has /\ a.v # <<>>

TEXT_PLAIN == <<"t", "e", "x", "t", "/", "p", "l", "a", "i", "n">>
TEXT_MARKDOWN == <<"t", "e", "x", "t", "/", "m", "a", "r", "k", "d", "o", "w", "n">>
OCTET_STREAM == <<"a", "p", "p", "l", "i", "c", "a", "t", "i", "o", "n", "/", "o", "c", "t", "e", "t", "-", "s", "t", "r", "e", "a", "m">>
GOOGLE_DOCUMENT == <<"a", "p", "p", "l", "i", "c", "a", "t", "i", "o", "n", "/", "v", "n", "d", ".", "g", "o", "o", "g", "l", "e", "-", "a", "p", "p", "s", ".", "d", "o", "c", "u", "m", "e", "n", "t">>
GOOGLE_PREFIX == <<"a", "p", "p", "l", "i", "c", "a", "t", "i", "o", "n", "/", "v", "n", "d", ".", "g", "o", "o", "g", "l", "e", "-", "a", "p", "p", "s", ".">>

\* The part of MIME_TYPES and GOOGLE_EXTENSIONS that the names of FileNames reach.
GOOGLE_EXTENSIONS == [e \in {<<".", "g", "d", "o", "c">>} |-> GOOGLE_DOCUMENT]
MIME_TYPES ==
  [e \in {<<".", "m", "d">>, <<".", "t", "x", "t">>} |-> IF e = <<".", "m", "d">> THEN TEXT_MARKDOWN ELSE TEXT_PLAIN]

ToLowerCase(ch) ==
  CASE ch = "M" -> "m" [] ch = "D" -> "d" [] ch = "A" -> "a" [] OTHER -> ch

\* filename.lastIndexOf('.'), counted from 1; 0 when there is none.
LastDot(filename) ==
  LET dots == {k \in 1..Len(filename) : filename[k] = "."}
  IN IF dots = {} THEN 0 ELSE CHOOSE k \in dots : \A j \in dots : j <= k

\* getExtension: '' when there is no dot or the name starts with its only dot.
getExtension(filename) ==
  IF LastDot(filename) = 0 \/ LastDot(filename) = 1 THEN <<>>
  ELSE SubSeq(filename, LastDot(filename), Len(filename))

getMimeType(filename) ==
  LET ext == [k \in 1..Len(getExtension(filename)) |-> ToLowerCase(getExtension(filename)[k])]
  IN IF ext \in DOMAIN GOOGLE_EXTENSIONS THEN GOOGLE_EXTENSIONS[ext]
     ELSE IF ext \in DOMAIN MIME_TYPES THEN MIME_TYPES[ext]
     ELSE OCTET_STREAM

\* mimeType.startsWith('application/vnd.google-apps.')
isGoogleWorkspaceType(mimeType) ==
  /\ Len(mimeType) >= Len(GOOGLE_PREFIX)
  /\ SubSeq(mimeType, 1, Len(GOOGLE_PREFIX)) = GOOGLE_PREFIX

\* name.replace(/\.(gdoc|gsheet|gslides?|gform|gdraw)$/i, '')
CleanName(name) ==
  IF [k \in 1..Len(getExtension(name)) |-> ToLowerCase(getExtension(name)[k])]
       \in DOMAIN GOOGLE_EXTENSIONS
  THEN SubSeq(name, 1, LastDot(name) - 1)
  ELSE name

MimeMaxLen == 100

\* const isMimeType = mimeTypeOrContent && (includes('/') && !includes('\n') &&
\* length < 100)
IsMimeType(a) ==
  /\ Truthy(a)
  /\ Includes(a.v, "/")
  /\ ~Includes(a.v, NL)
  /\ Len(a.v) < MimeMaxLen

NoMedia == [has |-> FALSE, mimeType |-> <<>>, body |-> <<>>]

\* What createFile hands to driveClient.createFile: the metadata and the media.
FileRequest(name, mimeType, parentId, content, upload) ==
  [name |-> name, mimeType |-> mimeType,
   parents |-> IF Truthy(parentId) THEN <<parentId.v>> ELSE <<>>,
   media |-> IF upload /\ Truthy(content)
             THEN [has |-> TRUE, mimeType |-> mimeType, body |-> content.v]
             ELSE NoMedia]

\* FileService.createFile(name, mimeTypeOrContent, contentOrParentId, parentId)
\* for a non-empty name: the second argument is taken for the MIME type when it
\* looks like one, and for the content otherwise, the third then being the
\* parent; a Google Workspace type goes to createGoogleWorkspaceFile, which
\* cleans the name and uploads nothing.
FileServiceCreateFile(name, mimeTypeOrContent, contentOrParentId, parentId) ==
  LET isMimeType == IsMimeType(mimeTypeOrContent)
      mimeType == IF isMimeType THEN mimeTypeOrContent.v ELSE getMimeType(name)
      content == IF isMimeType THEN contentOrParentId ELSE mimeTypeOrContent
      finalParentId == IF isMimeType THEN parentId ELSE contentOrParentId
  IN IF isGoogleWorkspaceType(mimeType)
     THEN FileRequest(CleanName(name), mimeType, finalParentId, content, FALSE)
     ELSE FileRequest(name, mimeType, finalParentId, content, TRUE)

FileNames == {<<>>, <<"a">>, <<"a", ".", "m", "d">>, <<".", "m", "d">>, <<"a", ".", "M", "D">>, <<"a", ".", "g", "d", "o", "c">>}
MimeArgs == {Absent, Passed(TEXT_PLAIN), Passed(<<"m", "d">>), Passed(<<"a", "/", "\n">>)}
ContentArgs == {Absent, Passed(<<>>), Passed(<<"h", "i">>), Passed(<<"d", "1">>)}
ParentArgs == {Absent, Passed(<<"d", "1">>), Passed(<<"n", "x">>)}

\* The folders the backend knows, as the ids are written.
KnownFolders == {<<"d", "1">>}

(***************** delete_file and delete_folder of handleTool **************)
FileId == "f1"
FolderId == "d1"
DriveIds == {FileId, FolderId}
\* The ids a caller may pass: a file, a folder, an id the backend does not know,
\* the empty string.
TargetIds == DriveIds \cup {"nx", ""}
\* The permanent argument as passed: a boolean, left out, or not a boolean.
PermanentArgs == {"true", "false", "omitted", "invalid"}

FOLDER_MIME_TYPE == "application/vnd.google-apps.folder"
MimeTypeOf(id) == IF id = FolderId THEN FOLDER_MIME_TYPE ELSE "text/plain"

\* z.string().min(1) and z.boolean().optional(): what parse accepts.
DeleteArgsValid(id, arg) == id # "" /\ arg # "invalid"

\* Mutant of ParsePermanent: permanent defaults to true.
ParsePermanentDefaultTrue(arg) == arg # "false"

\* z.boolean().optional().default(false)
ParsePermanent(arg) == arg = "true"

\* The backend knows the file: it was created and is not permanently deleted (a
\* trashed file is still known).
Known(id) == id \in DriveIds /\ drive.files[id] # "deleted"

IdleDrive ==
  [files |-> [id \in DriveIds |-> "live"], pc |-> "idle", tool |-> "none", id |-> "",
   arg |-> "omitted", permanent |-> FALSE, issued |-> <<>>, result |-> "none",
   args |-> [name |-> <<>>, mimeType |-> Absent, content |-> Absent, parentId |-> Absent],
   request |-> [has |-> FALSE, name |-> <<>>, mimeType |-> <<>>, parents |-> <<>>,
                media |-> NoMedia],
   created |-> [has |-> FALSE, name |-> <<>>, mimeType |-> <<>>, parents |-> <<>>,
                content |-> <<>>]]

\* The handler awaits the driveClient call op.
Issue(d, op) == [d EXCEPT !.pc = op, !.issued = Append(d.issued, op)]

\* if (permanent) deleteFile / deleteFolder else trashFile / trashFolder, from the
\* driveClient call on.
DeleteOrTrash(d) == Issue(d, IF d.permanent THEN "delete" ELSE "trash")

DriveStart(tool, id, arg) ==
  [drive EXCEPT !.pc = "idle", !.tool = tool, !.id = id, !.arg = arg,
                !.permanent = ParsePermanent(arg), !.issued = <<>>, !.result = "none"]

DriveEnd(d, result) == [d EXCEPT !.pc = "done", !.result = result]

\* case 'delete_file': up to the awaited driveClient call, or the ZodError.
HandleDeleteFile(id, arg) ==
  /\ drive.pc \in {"idle", "done"}
  /\ drive' = IF DeleteArgsValid(id, arg)
              THEN DeleteOrTrash(DriveStart("delete_file", id, arg))
              ELSE DriveEnd(DriveStart("delete_file", id, arg), "VALIDATION_ERROR")
  /\ UNCHANGED <<doc, calls, walk>>

\* case 'delete_folder': up to the getFile that getFolder awaits, or the ZodError.
HandleDeleteFolder(id, arg) ==
  /\ drive.pc \in {"idle", "done"}
  /\ drive' = IF DeleteArgsValid(id, arg)
              THEN Issue(DriveStart("delete_folder", id, arg), "get")
              ELSE DriveEnd(DriveStart("delete_folder", id, arg), "VALIDATION_ERROR")
  /\ UNCHANGED <<doc, calls, walk>>

\* files.get answers: getFolder's checks, then deleteFolder or trashFolder goes on
\* to its driveClient call.
GetFileReturns ==
  /\ drive.pc = "get"
  /\ Known(drive.id)
  /\ LET folder == [id |-> drive.id, mimeType |-> MimeTypeOf(drive.id)]
     IN drive' = IF folder.id = "" THEN DriveEnd(drive, "NOT_FOUND")
                 ELSE IF folder.mimeType # FOLDER_MIME_TYPE
                      THEN DriveEnd(drive, "VALIDATION_ERROR")
                      ELSE DeleteOrTrash(drive)
  /\ UNCHANGED <<doc, calls, walk>>

\* files.delete answers: the file is gone for good.
DeleteFileReturns ==
  /\ drive.pc = "delete"
  /\ Known(drive.id)
  /\ drive' = DriveEnd([drive EXCEPT !.files[drive.id] = "deleted"], "ok")
  /\ UNCHANGED <<doc, calls, walk>>

\* files.update {trashed: true} answers.
TrashFileReturns ==
  /\ drive.pc = "trash"
  /\ Known(drive.id)
  /\ drive' = DriveEnd([drive EXCEPT !.files[drive.id] = "trashed"], "ok")
  /\ UNCHANGED <<doc, calls, walk>>

\* files.get, files.delete or files.update throws (an id the backend does not
\* know, or the transport): catch (error) { throw createAPIError(...) }.
DriveCallFails ==
  /\ drive.pc \in {"get", "delete", "trash"}
  /\ drive' = DriveEnd(drive, "API_ERROR")
  /\ UNCHANGED <<doc, calls, walk>>

\* fileService.createFile(name, mimeType, content, parentId), as the handler
\* calls it: an argument left out is undefined in its place.
CreateFileCall(name, mimeType, content, parentId) ==
  FileServiceCreateFile(name, mimeType, content, parentId)

\* case 'create_file': the ZodError of a name that fails z.string().min(1), or up
\* to the awaited driveClient.createFile.
HandleCreateFile(name, mimeType, content, parentId) ==
  /\ drive.pc \in {"idle", "done"}
  /\ LET d == [DriveStart("create_file", "", "omitted") EXCEPT
                 !.args = [name |-> name, mimeType |-> mimeType,
                           content |-> content, parentId |-> parentId],
                 !.request = IdleDrive.request, !.created = IdleDrive.created]
         req == CreateFileCall(name, mimeType, content, parentId)
     IN drive' = IF Len(name) >= 1
                 THEN Issue([d EXCEPT !.request = [has |-> TRUE, name |-> req.name,
                                                   mimeType |-> req.mimeType,
                                                   parents |-> req.parents,
                                                   media |-> req.media]], "create")
                 ELSE DriveEnd(d, "VALIDATION_ERROR")
  /\ UNCHANGED <<doc, calls, walk>>

\* The backend takes a create whose parents are folders it knows.
ParentsKnown(request) == \A k \in 1..Len(request.parents) : request.parents[k] \in KnownFolders

\* files.create answers: the file exists with the metadata of the request and
\* the body of its media, empty when there is no media.
FilesCreateReturns ==
  /\ drive.pc = "create"
  /\ ParentsKnown(drive.request)
  /\ drive' = DriveEnd([drive EXCEPT !.created =
                          [has |-> TRUE, name |-> drive.request.name,
                           mimeType |-> drive.request.mimeType,
                           parents |-> drive.request.parents,
                           content |-> drive.request.media.body]], "ok")
  /\ UNCHANGED <<doc, calls, walk>>

\* files.create throws (a parent the backend does not know, or the transport):
\* catch (error) { throw createAPIError(...) }; no file is created.
FilesCreateFails ==
  /\ drive.pc = "create"
  /\ drive' = DriveEnd(drive, "API_ERROR")
  /\ UNCHANGED <<doc, calls, walk>>

\* A document as the file-creation service leaves it (only its terminator), or one
\* whose read carries no content tree.
InitDocs == {[body |-> TRUE, text |-> <<>>], [body |-> FALSE, text |-> <<>>]}

\* One caller, its calls one after another.
Init ==
  /\ walk = NoWalk
  /\ drive = IdleDrive
  /\ doc \in InitDocs
  /\ calls = [c \in Clients |-> IF c = 1 THEN Idle ELSE [Idle EXCEPT !.left = 0]]

Spec == Init /\ [][Next]_vars

\* The documents two callers may meet: those of InitDocs, or one that already
\* holds text.
ConcDocs == InitDocs \cup {[body |-> TRUE, text |-> <<"a">>]}

\* Two callers of MaxConcCalls calls each, interleaving at the awaits.
ConcInit ==
  /\ walk = NoWalk
  /\ drive = IdleDrive
  /\ doc \in ConcDocs
  /\ calls = [c \in Clients |-> [Idle EXCEPT !.left = MaxConcCalls]]

ConcSpec == ConcInit /\ [][Next]_vars

\* One caller whose calls are appendText and readDocument, one after another,
\* with the record of the run kept.
SeqInit ==
  /\ walk = NoWalk
  /\ drive = IdleDrive
  /\ doc \in ConcDocs
  /\ calls = [c \in Clients |->
               IF c = 1
               THEN [Idle EXCEPT !.hist = [on |-> TRUE, base |-> doc.text, texts |-> <<>>]]
               ELSE [Idle EXCEPT !.left = 0]]

SeqNext ==
  \E c \in Clients :
    \/ \E d \in DocIds : ReadDocument(c, d)
    \/ \E d \in DocIds, text \in Texts : AppendText(c, d, text)
    \/ GetDocumentReturns(c)
    \/ GetDocumentFails(c)
    \/ BatchUpdateReturns(c)
    \/ BatchUpdateFails(c)

SeqSpec == SeqInit /\ [][SeqNext]_vars

\* One caller creating documents, one call after another; doc is the document
\* behind the id that the latest createFile returned.
CreateInit ==
  /\ walk = NoWalk
  /\ drive = IdleDrive
  /\ doc \in InitDocs
  /\ calls = [c \in Clients |-> IF c = 1 THEN Idle ELSE [Idle EXCEPT !.left = 0]]

CreateNext ==
  \E c \in Clients :
    \/ \E title \in Titles, given \in BOOLEAN, content \in Texts, parentId \in ParentIds :
         CreateDocument(c, title, given, content, parentId)
    \/ CreateFileReturns(c)
    \/ CreateFileFails(c)
    \/ GetDocumentReturns(c)
    \/ GetDocumentFails(c)
    \/ BatchUpdateReturns(c)
    \/ BatchUpdateFails(c)

CreateSpec == CreateInit /\ [][CreateNext]_vars

\* The create_file tool, one call after another.
FileInit ==
  /\ walk = NoWalk
  /\ drive = IdleDrive
  /\ doc = [body |-> TRUE, text |-> <<>>]
  /\ calls = [c \in Clients |-> [Idle EXCEPT !.left = 0]]

FileNext ==
  \/ \E name \in FileNames, mimeType \in MimeArgs, content \in ContentArgs,
        parentId \in ParentArgs : HandleCreateFile(name, mimeType, content, parentId)
  \/ FilesCreateReturns
  \/ FilesCreateFails

FileSpec == FileInit /\ [][FileNext]_vars

\* readDocument's walk on every content tree of WalkTrees, and on an absent one.
WalkInit ==
  /\ drive = IdleDrive
  /\ doc = [body |-> TRUE, text |-> <<>>]
  /\ calls = [c \in Clients |-> [Idle EXCEPT !.left = 0]]
  /\ walk \in {NoWalk} \cup {[NoWalk EXCEPT !.absent = FALSE, !.tree = t] : t \in WalkTrees}

WalkNext == ExtractContent

WalkSpec == WalkInit /\ [][WalkNext]_vars

\* The delete tools called one after another on a drive of one file and one folder.
DriveInit ==
  /\ doc = [body |-> TRUE, text |-> <<>>]
  /\ calls = [c \in Clients |-> [Idle EXCEPT !.left = 0]]
  /\ walk = NoWalk
  /\ drive = IdleDrive

DriveNext ==
  \/ \E id \in TargetIds, arg \in PermanentArgs : HandleDeleteFile(id, arg)
  \/ \E id \in TargetIds, arg \in PermanentArgs : HandleDeleteFolder(id, arg)
  \/ GetFileReturns
  \/ DeleteFileReturns
  \/ TrashFileReturns
  \/ DriveCallFails

DriveSpec == DriveInit /\ [][DriveNext]_vars

(**************************** the claims ***********************************)
Running == {c \in Clients : calls[c].op # "none"}

SubmitsOf(r) == {k \in 1..Len(r.log) : r.log[k].kind = "submit"}
NoFault(r) == \A k \in 1..Len(r.log) : r.log[k].outcome # "fault"
Finished(r) == r.pc = "done"

\* What readDocument returns on document d.
ReadBack(d) == ExtractText(Tree(d))

\* C1: every insertText that appendText, addHeading or addBulletList submits
\* carries an index of at least 1, whatever document the read returned.
C1_InsertIndexAtLeastOne ==
  \A c \in Running :
    calls[c].op \in {"appendText", "addHeading", "addBulletList"} =>
      \A k \in SubmitsOf(calls[c]) :
        \A j \in 1..Len(calls[c].log[k].requests) :
          calls[c].log[k].requests[j].type = "insertText" =>
            calls[c].log[k].requests[j].startIndex >= 1

\* C2: a clearDocument that follows a successful clearDocument of the same
\* document (no other edit, no transport fault) returns without error, submits
\* nothing and leaves the document as it found it.
C2_SecondClearIsNoOp ==
  \A c \in Running :
    (/\ calls[c].op = "clearDocument"
     /\ calls[c].prev = "clearDocument"
     /\ Finished(calls[c])
     /\ NoFault(calls[c])) =>
      /\ calls[c].result = "ok"
      /\ SubmitsOf(calls[c]) = {}
      /\ doc = calls[c].snap

\* C3: no deleteContentRange submitted by clearDocument (alone or as the first
\* step of updateDocument) has an empty range.
C3_NoEmptyDeleteRange ==
  \A c \in Running :
    calls[c].op \in {"clearDocument", "updateDocument"} =>
      \A k \in SubmitsOf(calls[c]) :
        \A j \in 1..Len(calls[c].log[k].requests) :
          calls[c].log[k].requests[j].type = "deleteContentRange" =>
            calls[c].log[k].requests[j].startIndex
              # calls[c].log[k].requests[j].endIndex

\* C4: a readDocument that follows a successful clearDocument of the same
\* document (no other edit in between) returns the empty string.
C4_ReadAfterClearIsEmpty ==
  \A c \in Running :
    (/\ calls[c].op = "readDocument"
     /\ calls[c].prev = "clearDocument"
     /\ Finished(calls[c])
     /\ calls[c].result = "ok") =>
      calls[c].ret = <<>>

\* A read has returned after a clear that deleted the body's text.
C4_Witness ==
  \E c \in Running :
    /\ calls[c].op = "readDocument"
    /\ calls[c].prev = "clearDocument"
    /\ Finished(calls[c])
    /\ calls[c].result = "ok"
    /\ doc.body

\* C5: after a successful appendText of a non-empty text T to a document whose
\* text was P (no other edit), readDocument returns P followed by T, trimmed.
C5_AppendRoundTrip ==
  \A c \in Running :
    (/\ calls[c].op = "appendText"
     /\ calls[c].text # <<>>
     /\ Finished(calls[c])
     /\ calls[c].result = "ok") =>
      ReadBack(doc) = Trim(calls[c].snap.text \o calls[c].text)

\* An append to a document that already held text has succeeded.
C5_Witness ==
  \E c \in Running :
    /\ calls[c].op = "appendText"
    /\ calls[c].text # <<>>
    /\ Finished(calls[c])
    /\ calls[c].result = "ok"
    /\ Trim(calls[c].snap.text) # <<>>

\* C6: updateDocument on an existing document, with no other edit and no transport
\* fault, returns without error and readDocument then returns the content trimmed.
C6_UpdateReplacesAll ==
  \A c \in Running :
    (/\ calls[c].op = "updateDocument"
     /\ calls[c].docId = KnownId
     /\ Finished(calls[c])
     /\ NoFault(calls[c])) =>
      /\ calls[c].result = "ok"
      /\ ReadBack(doc) = Trim(calls[c].text)

ClearStepOk(r) ==
  /\ r.log # <<>>
  /\ r.log[1].phase = "clear"
  /\ \A k \in 1..Len(r.log) : r.log[k].phase = "clear" => r.log[k].outcome = "ok"

AppendStepFailed(r) ==
  \E k \in 1..Len(r.log) :
    r.log[k].phase = "append" /\ r.log[k].outcome \in Causes

\* C7: when updateDocument's clear step has succeeded and its append step has
\* failed, the call ends with the error, the failed request is the last one it
\* issued, and the document is empty (its old text is not put back).
C7_UpdateNoRollback ==
  \A c \in Running :
    (/\ calls[c].op = "updateDocument"
     /\ ClearStepOk(calls[c])
     /\ AppendStepFailed(calls[c])) =>
      /\ Finished(calls[c])
      /\ calls[c].result = "API_ERROR"
      /\ calls[c].log[Len(calls[c].log)].outcome \in Causes
      /\ \A k \in 1..(Len(calls[c].log) - 1) : calls[c].log[k].outcome = "ok"
      /\ doc.text = <<>>
      /\ ReadBack(doc) = <<>>

\* An update of a document that held text has failed in its append step.
C7_Witness ==
  \E c \in Running :
    /\ calls[c].op = "updateDocument"
    /\ ClearStepOk(calls[c])
    /\ AppendStepFailed(calls[c])
    /\ calls[c].snap.text # <<>>
    /\ doc # calls[c].snap

\* C8: in updateDocument every read or submit of the append step is issued after
\* the clear step's requests have all returned without error, the append's submit
\* follows the append's read, and an empty content issues no append request.
C8_UpdateSequential ==
  \A c \in Running :
    calls[c].op = "updateDocument" =>
      /\ calls[c].log # <<>> => calls[c].log[1].phase = "clear"
      /\ \A k \in 1..Len(calls[c].log) :
           calls[c].log[k].phase = "append" =>
             /\ calls[c].text # <<>>
             /\ k > 1
             /\ \A j \in 1..(k - 1) : calls[c].log[j].outcome = "ok"
             /\ calls[c].log[k].kind = "submit" =>
                  /\ calls[c].log[k - 1].kind = "read"
                  /\ calls[c].log[k - 1].phase = "append"
             /\ calls[c].log[k].kind = "read" =>
                  calls[c].log[k - 1].phase = "clear"

\* An update has gone through its two round trips: read, delete, read, insert.
C8_Witness ==
  \E c \in Running :
    /\ calls[c].op = "updateDocument"
    /\ Len(calls[c].log) = 4
    /\ calls[c].log[4].phase = "append"
    /\ calls[c].log[4].outcome = "ok"
    /\ Finished(calls[c])

\* C9: appendText of the empty text and addBulletList of the empty list return
\* without error, issue no read and no submit, and leave the document as it was.
C9_EmptyInputNoOp ==
  \A c \in Running :
    (/\ Finished(calls[c])
     /\ \/ calls[c].op = "appendText" /\ calls[c].text = <<>>
        \/ calls[c].op = "addBulletList" /\ calls[c].items = <<>>) =>
      /\ calls[c].result = "ok"
      /\ calls[c].log = <<>>
      /\ doc = calls[c].snap

\* An empty append has returned on a document that holds text.
C9_Witness ==
  \E c \in Running :
    /\ calls[c].op = "appendText"
    /\ calls[c].text = <<>>
    /\ Finished(calls[c])
    /\ doc.text # <<>>

\* C10: addHeading issues at most one batchUpdate, exactly one once its read has
\* returned, holding insertText(text + newline) at the index read minus one and
\* then updateParagraphStyle over [index, index + length(text) + 1] with the level.
C10_HeadingOneBatch ==
  \A c \in Running :
    calls[c].op = "addHeading" =>
      /\ Cardinality(SubmitsOf(calls[c])) <= 1
      /\ calls[c].log[1].outcome = "ok" => Cardinality(SubmitsOf(calls[c])) = 1
      /\ \A k \in SubmitsOf(calls[c]) :
           LET reqs == calls[c].log[k].requests
               i == calls[c].log[k - 1].endIndex - 1
           IN /\ k = 2
              /\ Len(reqs) = 2
              /\ reqs[1].type = "insertText"
              /\ reqs[1].startIndex = i
              /\ reqs[1].text = calls[c].text \o <<NL>>
              /\ reqs[2].type = "updateParagraphStyle"
              /\ reqs[2].startIndex = i
              /\ reqs[2].endIndex = i + Len(calls[c].text) + 1
              /\ reqs[2].style = calls[c].level

\* A heading with a non-empty text has been added to a document that holds text.
C10_Witness ==
  \E c \in Running :
    /\ calls[c].op = "addHeading"
    /\ calls[c].text # <<>>
    /\ calls[c].snap.text # <<>>
    /\ Finished(calls[c])
    /\ calls[c].result = "ok"
    /\ doc # calls[c].snap


\* Every item followed by a newline.
RECURSIVE EachLine(_)
EachLine(items) ==
  IF items = <<>> THEN <<>> ELSE Head(items) \o <<NL>> \o EachLine(Tail(items))

\* C11: addBulletList of a non-empty list issues at most one batchUpdate, exactly
\* one once its read has returned, holding insertText(items joined by newline plus
\* a trailing newline) at the index read minus one and then createParagraphBullets
\* over [index, index + length of the inserted text].
C11_BulletListOneBatch ==
  \A c \in Running :
    (calls[c].op = "addBulletList" /\ calls[c].items # <<>>) =>
      /\ Cardinality(SubmitsOf(calls[c])) <= 1
      /\ calls[c].log[1].outcome = "ok" => Cardinality(SubmitsOf(calls[c])) = 1
      /\ \A k \in SubmitsOf(calls[c]) :
           LET reqs == calls[c].log[k].requests
               i == calls[c].log[k - 1].endIndex - 1
           IN /\ k = 2
              /\ Len(reqs) = 2
              /\ reqs[1].type = "insertText"
              /\ reqs[1].startIndex = i
              /\ reqs[1].text = EachLine(calls[c].items)
              /\ reqs[2].type = "createParagraphBullets"
              /\ reqs[2].startIndex = i
              /\ reqs[2].endIndex = i + Len(reqs[1].text)

\* A list of two items has been added to a document that holds text.
C11_Witness ==
  \E c \in Running :
    /\ calls[c].op = "addBulletList"
    /\ Len(calls[c].items) = 2
    /\ calls[c].items[1] # <<>>
    /\ calls[c].snap.text # <<>>
    /\ Finished(calls[c])
    /\ calls[c].result = "ok"
    /\ doc # calls[c].snap


ReadsOf(r) == {k \in 1..Len(r.log) : r.log[k].kind = "read"}
FailuresOf(r) == {k \in 1..Len(r.log) : r.log[k].outcome \in Causes}

OneReadOneSubmitOps ==
  {"readDocument", "appendText", "insertText", "replaceText", "clearDocument",
   "addHeading", "addBulletList"}

\* C15: no operation retries. A call of readDocument, appendText, insertText,
\* replaceText, clearDocument, addHeading or addBulletList makes at most one
\* getDocument and at most one batchUpdate, a call of updateDocument at most two
\* of each, and a backend call that fails is the call's last: the operation has
\* ended with the error.
C15_NoRetries ==
  \A c \in Running :
    LET r == calls[c]
        most == IF r.op = "updateDocument" THEN 2 ELSE 1
    IN /\ r.op \in OneReadOneSubmitOps \cup {"updateDocument"}
       /\ Cardinality(ReadsOf(r)) <= most
       /\ Cardinality(SubmitsOf(r)) <= most
       /\ \A k \in FailuresOf(r) :
            k = Len(r.log) /\ Finished(r) /\ r.result = "API_ERROR"

\* An updateDocument that read and submitted twice and whose second batchUpdate
\* failed.
C15_Witness ==
  \E c \in Running :
    /\ calls[c].op = "updateDocument"
    /\ Cardinality(ReadsOf(calls[c])) = 2
    /\ Cardinality(SubmitsOf(calls[c])) = 2
    /\ FailuresOf(calls[c]) = {4}
    /\ Finished(calls[c])

\* C19: replaceText makes no getDocument and exactly one batchUpdate, holding a
\* single replaceAllText with the search text, the replacement and matchCase
\* true; when it returns, it returns the number of case-sensitive occurrences
\* the backend replaced, which is 0 when the answer carries no count.
C19_ReplaceTextOneSubmit ==
  \A c \in Running :
    calls[c].op = "replaceText" =>
      LET r == calls[c]
      IN /\ Len(r.log) = 1 /\ r.log[1].kind = "submit"
         /\ Len(r.log[1].requests) = 1
         /\ r.log[1].requests[1].type = "replaceAllText"
         /\ r.log[1].requests[1].search = r.search
         /\ r.log[1].requests[1].text = r.text
         /\ r.log[1].requests[1].matchCase = TRUE
         /\ (Finished(r) /\ r.result = "ok") =>
              /\ r.count = Occurrences(r.snap.text, r.search, TRUE)
              /\ ~r.log[1].reply.has => r.count = 0
              /\ r.log[1].reply.has => r.count = r.log[1].reply.occurrencesChanged

\* A replaceText that replaced two occurrences and changed the document.
C19_Witness ==
  \E c \in Running :
    /\ calls[c].op = "replaceText" /\ Finished(calls[c]) /\ calls[c].result = "ok"
    /\ calls[c].count = 2
    /\ doc # calls[c].snap

\* A replaceText whose answer carried no count.
C19_WitnessAbsent ==
  \E c \in Running :
    /\ calls[c].op = "replaceText" /\ Finished(calls[c]) /\ calls[c].result = "ok"
    /\ ~calls[c].log[1].reply.has
    /\ calls[c].snap.text # <<>>


\* Caller c awaits the batchUpdate of an appendText whose read returned the same
\* end index as the read of caller o's appendText, and o's text has landed since
\* c's call began.
SameIndexRace(c, o) ==
  /\ c # o
  /\ calls[c].op = "appendText" /\ calls[o].op = "appendText"
  /\ calls[c].docId = KnownId /\ calls[o].docId = KnownId
  /\ calls[c].text # <<>> /\ calls[o].text # <<>>
  /\ Finished(calls[o]) /\ calls[o].result = "ok"
  /\ calls[c].pc = "submit"
  /\ calls[c].log[1].endIndex = calls[o].log[1].endIndex
  /\ doc = ApplyBatch(calls[c].snap, calls[o].log[2].requests)

\* C12: two concurrent appendText calls are not serialized. When both read the
\* same end index before either submits, both submit an insertText at that index
\* minus one, and the batchUpdate answered second either is rejected, leaving the
\* document as it was, or puts its text before the text submitted first.
C12_ConcurrentAppendsRace ==
  [][\A c, o \in Clients :
       (SameIndexRace(c, o) /\ calls'[c].pc = "done") =>
         LET i == calls[c].log[1].endIndex - 1
             first == calls[o].text
             second == calls[c].text
         IN /\ calls[c].log[2].requests[1].startIndex = i
            /\ calls[o].log[2].requests[1].startIndex = i
            /\ \/ calls'[c].result # "ok" /\ doc' = doc
               \/ /\ calls'[c].result = "ok"
                  /\ doc'.text = SubSeq(doc.text, 1, i - 1) \o second \o first
                                   \o SubSeq(doc.text, i + Len(first), Len(doc.text))]_vars

\* Both appendText calls read the same end index of a document holding text, both
\* returned, and the document holds the two different texts at that index, the
\* one of caller c first.
C12_Witness ==
  \E c, o \in Clients :
    /\ c # o
    /\ calls[c].op = "appendText" /\ calls[o].op = "appendText"
    /\ Finished(calls[c]) /\ calls[c].result = "ok"
    /\ Finished(calls[o]) /\ calls[o].result = "ok"
    /\ calls[c].snap.text # <<>> /\ calls[o].snap = calls[c].snap
    /\ calls[c].text # <<>> /\ calls[o].text # <<>> /\ calls[c].text # calls[o].text
    /\ calls[c].log[1].endIndex = calls[o].log[1].endIndex
    /\ calls[c].log[2].requests[1].startIndex = calls[o].log[2].requests[1].startIndex
    /\ doc.text = calls[c].snap.text \o calls[c].text \o calls[o].text


\* The batch that caller c has submitted and that is not answered yet.
PendingRequests(c) == calls[c].log[Len(calls[c].log)].requests

\* Caller c awaits a batchUpdate on the known document that holds an index or a
\* range the document's current state does not allow.
StaleSubmit(c) ==
  /\ calls[c].pc = "submit"
  /\ calls[c].docId = KnownId
  /\ ~BatchLegal(doc, PendingRequests(c))

RefusalsOf(r) == {k \in 1..Len(r.log) : r.log[k].outcome = "refused"}

\* C13: a batchUpdate whose index or range is invalid for the document's current
\* state fails as a whole. The step that answers it leaves the document unchanged
\* and ends the call with the error, and a refused backend call is always the
\* last call its operation made.
C13_StaleSubmitFailsWhole ==
  [][/\ \A c \in Clients :
          (StaleSubmit(c) /\ calls'[c] # calls[c]) =>
            /\ doc' = doc
            /\ calls'[c].pc = "done" /\ calls'[c].result = "API_ERROR"
            /\ Len(calls'[c].log) = Len(calls[c].log)
            /\ calls'[c].log[Len(calls[c].log)].outcome \in Causes
     /\ \A c \in Clients : \A k \in RefusalsOf(calls'[c]) :
          /\ k = Len(calls'[c].log)
          /\ calls'[c].pc = "done" /\ calls'[c].result = "API_ERROR"]_vars

\* An appendText read the end of a document holding text, another caller's
\* clearDocument emptied the document, and the appendText's batchUpdate was
\* refused.
C13_Witness ==
  \E c, o \in Clients :
    /\ c # o
    /\ calls[c].op = "appendText" /\ calls[c].docId = KnownId
    /\ calls[o].op = "clearDocument" /\ calls[o].docId = KnownId
    /\ Finished(calls[o]) /\ calls[o].result = "ok"
    /\ Finished(calls[c]) /\ calls[c].result = "API_ERROR"
    /\ Len(calls[c].log) = 2 /\ calls[c].log[2].outcome = "refused"
    /\ calls[c].log[1].endIndex > DocEnd(doc)
    /\ calls[c].snap.text # <<>> /\ doc.text = <<>>


ReadingOps ==
  {"readDocument", "appendText", "clearDocument", "updateDocument", "addHeading",
   "addBulletList"}

\* C14: a getDocument on the unknown document id that the backend has refused
\* ends its operation with the code NOT_FOUND, and the operation makes no
\* batchUpdate.
C14_UnknownIdNotFound ==
  \A c \in Running :
    LET r == calls[c]
    IN (/\ r.op \in ReadingOps /\ r.docId = UnknownId
        /\ RefusalsOf(r) # {}) =>
         /\ Finished(r) /\ r.result = "NOT_FOUND"
         /\ SubmitsOf(r) = {}


(* The claims on readDocument's content, on the trees of WalkSpec. *)
HoldsTable(tree) == \E k \in 1..Len(tree) : tree[k].kind = "table"

\* A cell of one paragraph of one run of one character that is not a blank.
IsPlainCell(cell) ==
  /\ Len(cell) = 1 /\ cell[1].kind = "paragraph" /\ cell[1].has
  /\ Len(cell[1].runs) = 1 /\ cell[1].runs[1].has
  /\ Len(cell[1].runs[1].content) = 1 /\ ~IsSpace(cell[1].runs[1].content[1])

IsPlainTable(b) ==
  /\ b.kind = "table"
  /\ \A r \in 1..Len(b.rows) : \A k \in 1..Len(b.rows[r]) : IsPlainCell(b.rows[r][k])

RowLine(row) == Join([k \in 1..Len(row) |-> row[k][1].runs[1].content], <<" ", "|", " ">>)

TableLines(rows) ==
  << <<"[", "T", "A", "B", "L", "E", "]">> >>
  \o [r \in 1..Len(rows) |-> RowLine(rows[r])]
  \o << <<"[", "/", "T", "A", "B", "L", "E", "]">> >>

AbcdTree ==
  <<Table(<< <<PlainCell("a"), PlainCell("b")>>, <<PlainCell("c"), PlainCell("d")>> >>)>>

\* The runs of a paragraph block, one after another with nothing between them.
RunsOf(b) ==
  IF b.kind = "paragraph" /\ b.has
  THEN Join([k \in 1..Len(b.runs) |-> IF b.runs[k].has THEN b.runs[k].content ELSE <<>>],
            <<>>)
  ELSE <<>>

\* C16: the content of a tree holding exactly one table of single-run cells is the
\* line [TABLE], one line per row with the cells joined by ' | ', then the line
\* [/TABLE], the lines joined by line breaks; for the rows [[a,b],[c,d]] it is
\* "[TABLE]\na | b\nc | d\n[/TABLE]". Between two paragraphs the same lines stand
\* between the paragraphs' texts.
C16_TableFlattening ==
  (walk.done /\ ~walk.absent) =>
    /\ (Len(walk.tree) = 1 /\ IsPlainTable(walk.tree[1])) =>
         walk.content = Join(TableLines(walk.tree[1].rows), <<NL>>)
    /\ walk.tree = AbcdTree =>
         walk.content = <<"[", "T", "A", "B", "L", "E", "]", NL,
                          "a", " ", "|", " ", "b", NL,
                          "c", " ", "|", " ", "d", NL,
                          "[", "/", "T", "A", "B", "L", "E", "]">>
    /\ (Len(walk.tree) = 3 /\ IsPlainTable(walk.tree[2])) =>
         walk.content = Trim(RunsOf(walk.tree[1])
                             \o Join(TableLines(walk.tree[2].rows), <<NL>>) \o <<NL>>
                             \o RunsOf(walk.tree[3]))

\* The walk has returned on the table with the rows [[a,b],[c,d]].
C16_Witness == walk.done /\ ~walk.absent /\ walk.tree = AbcdTree /\ Len(walk.content) = 28

\* The block-walk applied to the blocks of a cell as to those of the document:
\* paragraphs give their runs, a table its [TABLE] block, every cell's text being
\* the walk of the cell's blocks trimmed once.
RECURSIVE NestedWalk(_)
NestedWalk(blocks) ==
  IF blocks = <<>> THEN <<>>
  ELSE LET b == Head(blocks)
           cellsOf(row) == [k \in 1..Len(row) |-> Trim(NestedWalk(row[k]))]
           lineOf(row) == Join(cellsOf(row), <<" ", "|", " ">>) \o <<NL>>
       IN (IF b.kind = "table"
           THEN <<"[", "T", "A", "B", "L", "E", "]", NL>>
                \o Join([r \in 1..Len(b.rows) |-> lineOf(b.rows[r])], <<>>)
                \o <<"[", "/", "T", "A", "B", "L", "E", "]", NL>>
           ELSE RunsOf(b))
          \o NestedWalk(Tail(blocks))

\* C17: the text of a table cell is the document's block-walk applied to the
\* cell's blocks and trimmed once as a whole, so the content of a tree holding a
\* table is that nested walk of the tree, trimmed.
C17_CellTextIsNestedWalk ==
  (walk.done /\ ~walk.absent /\ HoldsTable(walk.tree)) =>
    walk.content = Trim(NestedWalk(walk.tree))

\* The texts of all runs of the tree, block after block, nothing between them.
AllRuns(tree) == Join([k \in 1..Len(tree) |-> RunsOf(tree[k])], <<>>)

\* C18: the content of a tree without tables is the texts of its runs in block
\* order then run order with nothing added, trimmed at both ends; an absent or
\* empty tree, a paragraph without elements and a run without content add the
\* empty string.
C18_ParagraphsConcatenated ==
  walk.done =>
    /\ walk.absent => walk.content = <<>>
    /\ (~walk.absent /\ ~HoldsTable(walk.tree)) => walk.content = Trim(AllRuns(walk.tree))
    /\ (~walk.absent /\ walk.tree = <<>>) => walk.content = <<>>

\* The walk has returned on two paragraphs of two runs each, the first run a
\* blank and one run without content.
C18_Witness ==
  /\ walk.done /\ ~walk.absent /\ Len(walk.tree) = 2
  /\ \A k \in 1..2 : walk.tree[k].kind = "paragraph" /\ walk.tree[k].has
                      /\ Len(walk.tree[k].runs) = 2
  /\ walk.tree[1].runs[1] = Run(<<" ">>)
  /\ \E k \in 1..2 : ~walk.tree[2].runs[k].has
  /\ walk.content = <<"a", "a">>

\* The walk has returned on an absent tree.
C18_WitnessAbsent == walk.done /\ walk.absent /\ walk.content = <<>>


(* The claim on the delete tools, under DriveSpec. *)
\* C20: delete_file and delete_folder issue the permanent delete only when
\* permanent is true: with permanent false or left out the handler issues the
\* trash call and never the delete; a step that deletes a file for good is the
\* answer to a call with permanent true; and delete_folder on an id that is not a
\* folder issues neither the trash nor the delete.
C20_NoPermanentDeleteUnlessAsked ==
  [][/\ (drive'.tool \in {"delete_file", "delete_folder"} /\ drive'.arg # "true") =>
          \A k \in 1..Len(drive'.issued) : drive'.issued[k] \in {"get", "trash"}
     /\ (drive'.tool \in {"delete_file", "delete_folder"}
          /\ drive'.arg \in {"false", "omitted"} /\ drive'.result = "ok") =>
          drive'.issued[Len(drive'.issued)] = "trash"
     /\ \A id \in DriveIds :
          (drive'.files[id] = "deleted" /\ drive.files[id] # "deleted") =>
            drive.arg = "true" /\ drive.id = id
     /\ (drive'.tool = "delete_folder" /\ drive'.id # FolderId) =>
          \A k \in 1..Len(drive'.issued) : drive'.issued[k] = "get"]_vars

\* delete_folder without permanent has returned on the folder: it read the
\* folder, trashed it and deleted nothing.
C20_Witness ==
  /\ drive.tool = "delete_folder" /\ drive.id = FolderId /\ drive.arg = "omitted"
  /\ drive.pc = "done" /\ drive.result = "ok"
  /\ drive.issued = <<"get", "trash">>
  /\ drive.files[FolderId] = "trashed"

\* delete_folder with permanent true has ended on the file's id with the
\* validation error, the file untouched.
C20_WitnessNotAFolder ==
  /\ drive.tool = "delete_folder" /\ drive.id = FileId /\ drive.arg = "true"
  /\ drive.pc = "done" /\ drive.result = "VALIDATION_ERROR"
  /\ drive.issued = <<"get">>
  /\ drive.files[FileId] = "live"


(* Further claims on the document operations, under Spec. *)
\* The endIndex of the last top-level block of a non-empty tree.
LastEnd(tree) == tree[Len(tree)].endIndex

AppendingOps == {"appendText", "addHeading", "addBulletList"}

\* C22: when the read of an appendText, addHeading or addBulletList returned a
\* non-empty content tree, the insertText the call submits carries the endIndex
\* of the tree's last top-level block minus 1, and that index is at least 1.
C22_AppendIndexInvariant ==
  \A c \in Running :
    LET r == calls[c]
        tree == Tree(r.snap)
    IN (r.op \in AppendingOps /\ r.docId = KnownId /\ tree # <<>>) =>
         \A k \in SubmitsOf(r) :
           /\ r.log[k].requests[1].type = "insertText"
           /\ r.log[k].requests[1].startIndex = LastEnd(tree) - 1
           /\ r.log[k].requests[1].startIndex >= 1

\* An addBulletList has submitted on a document that held text when it was read.
C22_Witness ==
  \E c \in Running :
    /\ calls[c].op = "addBulletList" /\ calls[c].docId = KnownId
    /\ calls[c].snap.body /\ calls[c].snap.text # <<>>
    /\ SubmitsOf(calls[c]) # {}
    /\ calls[c].log[2].requests[1].startIndex = Len(calls[c].snap.text) + 1

\* The end-of-document index of the document a call found: the endIndex of the
\* last top-level block, 1 when the tree is empty or the block has none.
EndRead(r) ==
  LET tree == Tree(r.snap)
  IN IF tree = <<>> THEN 1 ELSE IF LastEnd(tree) = 0 THEN 1 ELSE LastEnd(tree)

\* C23: once its read has returned, clearDocument has submitted exactly one batch
\* holding one deleteContentRange over (1, E - 1) when the end-of-document index
\* E it read is greater than 1, and it submits nothing when E is at most 1.
C23_ClearRange ==
  \A c \in Running :
    LET r == calls[c]
        E == EndRead(r)
    IN (r.op = "clearDocument" /\ r.docId = KnownId /\ r.log[1].outcome = "ok") =>
         /\ E > 1 =>
              /\ Cardinality(SubmitsOf(r)) = 1
              /\ \A k \in SubmitsOf(r) :
                   /\ Len(r.log[k].requests) = 1
                   /\ r.log[k].requests[1].type = "deleteContentRange"
                   /\ r.log[k].requests[1].startIndex = 1
                   /\ r.log[k].requests[1].endIndex = E - 1
         /\ E <= 1 => SubmitsOf(r) = {} /\ Finished(r) /\ r.result = "ok"

\* A clearDocument has returned on a document that held text, its range applied.
C23_Witness ==
  \E c \in Running :
    /\ calls[c].op = "clearDocument" /\ calls[c].docId = KnownId
    /\ Len(calls[c].snap.text) >= 2
    /\ Finished(calls[c]) /\ calls[c].result = "ok"
    /\ doc.text = <<>>

\* A clearDocument has returned on a document whose read carries no content tree.
C23_WitnessNothingToClear ==
  \E c \in Running :
    /\ calls[c].op = "clearDocument" /\ calls[c].docId = KnownId
    /\ ~calls[c].snap.body
    /\ Finished(calls[c]) /\ calls[c].result = "ok" /\ SubmitsOf(calls[c]) = {}

RangeTypes == {"deleteContentRange", "updateParagraphStyle", "createParagraphBullets"}

\* C28: no deleteContentRange, updateParagraphStyle or createParagraphBullets
\* that clearDocument, addHeading or addBulletList submits is inverted: its
\* startIndex is at most its endIndex.
C28_NoInvertedRange ==
  \A c \in Running :
    calls[c].op \in {"clearDocument", "addHeading", "addBulletList"} =>
      \A k \in SubmitsOf(calls[c]) :
        \A j \in 1..Len(calls[c].log[k].requests) :
          calls[c].log[k].requests[j].type \in RangeTypes =>
            calls[c].log[k].requests[j].startIndex <= calls[c].log[k].requests[j].endIndex

\* A clearDocument has submitted its range on an empty document.
C28_Witness ==
  \E c \in Running :
    /\ calls[c].op = "clearDocument" /\ calls[c].docId = KnownId
    /\ calls[c].snap.body /\ calls[c].snap.text = <<>>
    /\ SubmitsOf(calls[c]) # {}
    /\ calls[c].log[2].requests[1].type = "deleteContentRange"


MutatingOps ==
  {"appendText", "insertText", "replaceText", "clearDocument", "updateDocument",
   "addHeading", "addBulletList"}

ReadFirstOps ==
  {"appendText", "clearDocument", "updateDocument", "addHeading", "addBulletList"}

\* Event k of the call is a batchUpdate that follows a getDocument of the same
\* call.
ReadBefore(r, k) == \E j \in ReadsOf(r) : j < k

\* C25 as stated: every mutating operation (appendText, insertText, replaceText,
\* clearDocument, updateDocument, addHeading, addBulletList) has read the
\* document before it submits a batch.
C25_EveryMutationReadsFirst ==
  \A c \in Running :
    calls[c].op \in MutatingOps =>
      \A k \in SubmitsOf(calls[c]) : ReadBefore(calls[c], k)

\* C25 amended: appendText, clearDocument, updateDocument, addHeading and
\* addBulletList submit a batch only right after a getDocument of the same call
\* has returned; insertText and replaceText submit without any read.
C25_IndexDerivingOpsReadFirst ==
  \A c \in Running :
    LET r == calls[c]
    IN /\ r.op \in ReadFirstOps =>
            \A k \in SubmitsOf(r) :
              k > 1 /\ r.log[k - 1].kind = "read" /\ r.log[k - 1].outcome = "ok"
       /\ r.op \in {"insertText", "replaceText"} => ReadsOf(r) = {}

\* An insertText has returned, the document changed, without a read.
C25_Witness ==
  \E c \in Running :
    /\ calls[c].op = "insertText" /\ Finished(calls[c]) /\ calls[c].result = "ok"
    /\ SubmitsOf(calls[c]) = {1} /\ ReadsOf(calls[c]) = {}
    /\ doc # calls[c].snap

OneStepOps == {"appendText", "clearDocument", "addHeading", "addBulletList"}

\* The end-of-document index of the document as it is now: the endIndex of the
\* last top-level block, 1 for an empty tree.
EndNow == IF Tree(doc) = <<>> THEN 1 ELSE LastEnd(Tree(doc))

\* C26: in a call of appendText, clearDocument, addHeading or addBulletList the
\* batch is issued only by the step in which the call's own read returns, and
\* every index in it comes from the tree that read returned: the insert index is
\* its end index minus 1, ranges start there (at 1 for the clear) and the clear
\* range ends there.
C26_IndicesFromOwnRead ==
  [][\A c \in Clients :
       LET r == calls[c]
           n == calls'[c]
       IN (n # r /\ n.op \in OneStepOps /\ n.pc = "submit") =>
               /\ r.pc = "read" /\ r.op = n.op /\ Len(r.log) = 1 /\ Len(n.log) = 2
               /\ n.log[1].kind = "read" /\ n.log[1].outcome = "ok"
               /\ n.log[2].kind = "submit"
               /\ \A j \in 1..Len(n.log[2].requests) :
                    LET q == n.log[2].requests[j]
                    IN CASE q.type = "insertText" -> q.startIndex = EndNow - 1
                         [] q.type = "deleteContentRange" ->
                              q.startIndex = 1 /\ q.endIndex = EndNow - 1
                         [] OTHER ->
                              /\ q.startIndex = EndNow - 1
                              /\ q.endIndex = EndNow - 1 + Len(n.log[2].requests[1].text)]_vars

\* An appendText has submitted at the end of a document that an earlier call of
\* the same caller had made longer than the empty document.
C26_Witness ==
  \E c \in Running :
    /\ calls[c].op = "appendText" /\ calls[c].docId = KnownId
    /\ Len(calls[c].snap.text) >= 2
    /\ SubmitsOf(calls[c]) = {2}
    /\ calls[c].log[2].requests[1].startIndex = Len(calls[c].snap.text) + 1

\* The insert index lies within the body of document d.
IndexInRange(d, index) == index >= 1 /\ index <= Max(1, DocEnd(d) - 1)

CleanEndOps ==
  {"appendText", "addHeading", "addBulletList", "clearDocument", "updateDocument"}

\* The body of document d as the backend holds it: its text and the trailing
\* terminator.
BodyText(d) == d.text \o <<NL>>

\* The text that the batch's insertText carries, none when it has no insertText.
InsertedText(reqs) == IF reqs[1].type = "insertText" THEN reqs[1].text ELSE <<>>

\* C24: the document always ends cleanly under appendText, addHeading,
\* addBulletList, clearDocument and updateDocument run one at a time. No batch
\* they issue inserts behind the trailing terminator or deletes it; and when a
\* batch of theirs is applied, the body still ends with the one terminator, the
\* text inserted standing immediately before it and after all earlier text, and a
\* clear leaving nothing but the terminator.
C24_EndsCleanly ==
  [][\A c \in Clients :
       LET r == calls[c]
           n == calls'[c]
       IN /\ (n # r /\ n.op \in CleanEndOps /\ n.pc = "submit" /\ n.docId = KnownId) =>
               \A j \in 1..Len(PendingRequests(c)') :
                 LET q == PendingRequests(c)'[j]
                 IN /\ q.type = "insertText" => q.startIndex <= EndNow - 1
                    /\ q.type = "deleteContentRange" => q.endIndex <= EndNow - 1
          /\ (r.op \in CleanEndOps /\ r.pc = "submit"
              /\ n.log[Len(r.log)].outcome = "ok") =>
               LET reqs == PendingRequests(c)
               IN /\ doc'.body
                  /\ BodyText(doc')[Len(BodyText(doc'))] = NL
                  /\ LastEnd(Tree(doc')) = Len(BodyText(doc')) + 1
                  /\ reqs[1].type = "insertText" =>
                       BodyText(doc') = doc.text \o InsertedText(reqs) \o <<NL>>
                  /\ reqs[1].type = "deleteContentRange" => BodyText(doc') = <<NL>>]_vars

\* An addHeading has returned on a document that held text: the heading's text
\* and newline stand after that text, before the terminator.
C24_Witness ==
  \E c \in Running :
    /\ calls[c].op = "addHeading" /\ Finished(calls[c]) /\ calls[c].result = "ok"
    /\ calls[c].text # <<>> /\ calls[c].snap.text # <<>>
    /\ doc.text = calls[c].snap.text \o calls[c].text \o <<NL>>


(* The claim on runs of appendText calls, under SeqSpec. *)
\* A readDocument of the known document has returned within a recorded run.
ReadInRun(r) ==
  /\ r.op = "readDocument" /\ r.docId = KnownId
  /\ Finished(r) /\ r.result = "ok"
  /\ r.hist.on

\* C29 as stated: after appendText calls of the non-empty texts T1..Tn, run one
\* after another on a document whose text was P, readDocument returns P followed
\* by T1, T2, ..., Tn.
C29_SequentialAppendsInOrder ==
  \A c \in Running :
    ReadInRun(calls[c]) =>
      calls[c].ret = calls[c].hist.base \o Join(calls[c].hist.texts, <<>>)

\* C29 amended: readDocument returns P followed by T1, T2, ..., Tn in call order,
\* trimmed of leading and trailing whitespace.
C29_SequentialAppendsInOrderTrimmed ==
  \A c \in Running :
    ReadInRun(calls[c]) =>
      calls[c].ret = Trim(calls[c].hist.base \o Join(calls[c].hist.texts, <<>>))

\* A read has returned after three appends, not all of the same text, to a
\* document that held text.
C29_Witness ==
  \E c \in Running :
    /\ ReadInRun(calls[c])
    /\ calls[c].hist.base # <<>>
    /\ Len(calls[c].hist.texts) = 3
    /\ calls[c].hist.texts[1] # calls[c].hist.texts[2]
    /\ Len(calls[c].ret) = 4


CreatesOf(r) == {k \in 1..Len(r.log) : r.log[k].kind = "create"}

\* The content createDocument was given is non-empty.
HasContent(r) == r.given /\ r.text # <<>>

\* C30: createDocument with non-empty content first creates the empty document
\* (its createFile is the call's first backend call and has answered before any
\* getDocument or batchUpdate is issued) and only then appends the content, which
\* the document holds when the call returns; when the append step fails, the call
\* ends with the error, and the created document is left as it was created: the
\* call has issued nothing but the createFile, the read and the insertText, so
\* nothing deletes it; with empty or absent content the call issues no
\* getDocument and no batchUpdate.
C30_CreateThenAppend ==
  \A c \in Running :
    LET r == calls[c]
        after == ReadsOf(r) \cup SubmitsOf(r)
    IN r.op = "createDocument" =>
         /\ CreatesOf(r) \subseteq {1}
         /\ \A k \in after : k > 1 /\ r.log[1].kind = "create" /\ r.log[1].outcome = "ok"
         /\ \A k \in SubmitsOf(r) :
              r.log[k].requests = <<InsertTextRequest(r.log[k - 1].endIndex - 1, r.text)>>
         /\ (HasContent(r) /\ Finished(r) /\ r.result = "ok") =>
              /\ Cardinality(ReadsOf(r)) = 1 /\ Cardinality(SubmitsOf(r)) = 1
              /\ doc.text = r.text
         /\ \A k \in after :
              r.log[k].outcome \in Causes =>
                /\ k = Len(r.log) /\ Finished(r) /\ r.result = "API_ERROR"
                /\ doc.text = <<>>
         /\ ~HasContent(r) => after = {}

\* A createDocument with content whose document was created and whose append
\* failed at its batchUpdate: the call has ended with API_ERROR and the created
\* document is still there, empty.
C30_Witness ==
  \E c \in Running :
    LET r == calls[c]
    IN /\ r.op = "createDocument" /\ HasContent(r)
       /\ Len(r.log) = 3 /\ r.log[1].outcome = "ok"
       /\ r.log[3].kind = "submit" /\ r.log[3].outcome \in Causes
       /\ Finished(r) /\ r.result = "API_ERROR"
       /\ doc.text = <<>>

\* A createDocument with content that returned with the content appended.
C30_WitnessAppended ==
  \E c \in Running :
    /\ calls[c].op = "createDocument" /\ HasContent(calls[c])
    /\ Finished(calls[c]) /\ calls[c].result = "ok"
    /\ doc.text = calls[c].text

\* A createDocument given the empty content that returned after its createFile.
C30_WitnessNoContent ==
  \E c \in Running :
    /\ calls[c].op = "createDocument" /\ calls[c].given /\ calls[c].text = <<>>
    /\ Finished(calls[c]) /\ calls[c].result = "ok"
    /\ Len(calls[c].log) = 1


\* The parents a file has when it is created under parentId.
ParentsFor(parentId) == IF Truthy(parentId) THEN <<parentId.v>> ELSE <<>>

\* A create_file call with a name and content and no mimeType, whose name is not
\* one of a Google Workspace type.
NameAndContentOnly ==
  /\ drive.tool = "create_file"
  /\ drive.args.name # <<>>
  /\ drive.args.content.has
  /\ ~drive.args.mimeType.has
  /\ ~isGoogleWorkspaceType(getMimeType(drive.args.name))

\* C21: create_file called with a name and content and no mimeType asks the
\* backend for a file whose MIME type is the one detected from the name's
\* extension, whose uploaded body is the given content and whose parent is the
\* given parentId (no parent when parentId is left out), and the file it has
\* created when it returns is that file.
C21_CreateFileAutoDetects ==
  NameAndContentOnly =>
    /\ drive.request.has =>
         /\ drive.request.mimeType = getMimeType(drive.args.name)
         /\ drive.request.media.body = drive.args.content.v
         /\ drive.request.parents = ParentsFor(drive.args.parentId)
    /\ drive.result = "ok" =>
         /\ drive.created.has
         /\ drive.created.mimeType = getMimeType(drive.args.name)
         /\ drive.created.content = drive.args.content.v
         /\ drive.created.parents = ParentsFor(drive.args.parentId)

\* The part of C21 that the code keeps: the MIME type of the request is the one
\* detected from the name's extension.
C21_MimeTypeDetected ==
  (NameAndContentOnly /\ drive.request.has) =>
    drive.request.mimeType = getMimeType(drive.args.name)

\* A create_file with a name, a content and a parent that returned a file with
\* no content, under a folder named by the content.
C21_ContentTakenForParent ==
  /\ NameAndContentOnly
  /\ Truthy(drive.args.content) /\ Truthy(drive.args.parentId)
  /\ drive.result = "ok"
  /\ drive.created.content = <<>>
  /\ drive.created.parents = <<drive.args.content.v>>
  /\ drive.created.mimeType = TEXT_MARKDOWN

====
